---- MODULE Spec2Model ----
(***************************************************************************)
(* ConCart: the paper ingestor (code/update_database.py) and the URL       *)
(* resolver (code/findurl.py), modelled as state machines over the CSV     *)
(* tables they read and rewrite.                                           *)
(*                                                                         *)
(* Text is modelled as a tuple of one-character strings, so that the       *)
(* string operations of the code (split, strip, re.sub, +, startswith,     *)
(* endswith, lower) are computed character by character.  A missing value  *)
(* (Python None, pandas NA/NaN, an empty CSV cell) is the tuple NA.        *)
(***************************************************************************)
EXTENDS Integers, Sequences, FiniteSets, TLC

VARIABLES
    papers_csv,    \* rows of paths['papers']   (the persisted Papers table)
    objects_csv,   \* rows of paths['objects']  (the persisted Objects table)
    evidence_csv,  \* rows of paths['evidence'] (the persisted Evidence table)
    pre,           \* history: the three tables as they were before the last merge
    data,          \* history: the analyzer response of the last merge
    docs,          \* documents the ingestor's main loop has handled so far
    proposed,      \* candidate rows the analyzer has proposed so far in the run
    ingestor,      \* the ingestor process: where it is, how it ended, and how
                   \* its last merge went
    inst,          \* two ingestor processes run side by side: for each, where
                   \* it is in update_database_files and what it holds in memory
    input_csv,     \* rows of INPUT_FILE_PATH, the resolver's input table
    output_csv,    \* OUTPUT_FILE_PATH: whether the file exists, and its rows
    df,            \* the resolver's in-memory table
    pc,            \* the resolver process: "stopped" or "running"
    idx,           \* the row process_papers handles next
    last,          \* history: what the resolver did with the last row it handled
    run,           \* history: how the current run of the resolver started
    interrupts,    \* times the resolver process has been killed
    env,           \* what the resolver finds when it starts: whether
                   \* GEMINI_API_KEY is set, whether INPUT_FILE_PATH exists
    exit_code      \* how the last run of the resolver ended

ingestVars ==
    <<papers_csv, objects_csv, evidence_csv, pre, data, docs, proposed, ingestor,
      inst>>

resolverVars ==
    <<input_csv, output_csv, df, pc, idx, last, run, interrupts, env, exit_code>>

vars == <<papers_csv, objects_csv, evidence_csv, pre, data, docs, proposed,
          ingestor, inst, input_csv, output_csv, df, pc, idx, last, run, interrupts,
          env, exit_code>>

(***************************************************************************)
(* Bounds of the model.                                                    *)
(***************************************************************************)
MaxDocs == 2       \* documents piped to one run of the ingestor
MaxNew == 2        \* candidate objects plus candidate edges proposed in one run
NumRows == 3       \* rows of the resolver's table
MaxInterrupts == 1 \* times the resolver process is killed

(***************************************************************************)
(* Text helpers.                                                           *)
(***************************************************************************)
NA == <<"<NA>">>

\* Python truthiness of an optional string: None and "" are falsy.
Truthy(s) == s # NA /\ s # <<>>

Digit == <<"0", "1", "2", "3", "4", "5", "6", "7", "8", "9">>

\* The value of a missing year (Python None).
NoneYear == -1

RECURSIVE IntToStr(_)
IntToStr(n) == IF n < 10 THEN <<Digit[n + 1]>>
               ELSE IntToStr(n \div 10) \o <<Digit[(n % 10) + 1]>>

\* f"{year}": the decimal digits of an int, "None" for None.
FormatYear(year) == IF year = NoneYear THEN <<"N", "o", "n", "e">>
                    ELSE IntToStr(year)

\* The characters the regular expression class \w matches.
WordChars ==
    {"a", "b", "c", "d", "e", "f", "g", "h", "i", "j", "k", "l", "m",
     "n", "o", "p", "q", "r", "s", "t", "u", "v", "w", "x", "y", "z",
     "A", "B", "C", "D", "E", "F", "G", "H", "I", "J", "K", "L", "M",
     "N", "O", "P", "Q", "R", "S", "T", "U", "V", "W", "X", "Y", "Z",
     "0", "1", "2", "3", "4", "5", "6", "7", "8", "9", "_"}

Whitespace == {" ", "\t", "\n", "\r"}

IsWordChar(c) == c \in WordChars

\* re.sub(r'\W+', '', s): every character that is not a word character goes.
StripNonWord(s) == SelectSeq(s, IsWordChar)

\* s.split(sep)[0]: the text before the first sep, all of s if there is none.
RECURSIVE SplitFirst(_, _)
SplitFirst(s, sep) ==
    IF s = <<>> \/ Head(s) = sep THEN <<>>
    ELSE <<Head(s)>> \o SplitFirst(Tail(s), sep)

\* s.split(sep)[-1]: the text after the last sep, all of s if there is none.
RECURSIVE SplitLast(_, _)
SplitLast(s, sep) ==
    IF s = <<>> \/ s[Len(s)] = sep THEN <<>>
    ELSE SplitLast(SubSeq(s, 1, Len(s) - 1), sep) \o <<s[Len(s)]>>

RECURSIVE LStrip(_)
LStrip(s) == IF s # <<>> /\ Head(s) \in Whitespace THEN LStrip(Tail(s)) ELSE s

RECURSIVE RStrip(_)
RStrip(s) == IF s # <<>> /\ s[Len(s)] \in Whitespace
             THEN RStrip(SubSeq(s, 1, Len(s) - 1)) ELSE s

\* s.strip()
Strip(s) == RStrip(LStrip(s))

(***************************************************************************)
(* create_citation_key(authors, year)                                      *)
(***************************************************************************)
create_citation_key(authors, year) ==
    IF ~Truthy(authors) THEN <<"U", "n", "k", "n", "o", "w", "n">> \o FormatYear(year)
    ELSE StripNonWord(SplitLast(Strip(SplitFirst(authors, ",")), " "))
             \o FormatYear(year)

(***************************************************************************)
(* The tables.  A Papers row is [CitationKey, Authors, Year, Title,        *)
(* Publication, URL], an Objects row [ObjectID, Name, Type, Description],  *)
(* an Evidence row [EvidenceID, CitationKey, SourceID, MorphismID,         *)
(* TargetID, Notes].  Tables are sequences: the rows of the CSV file in    *)
(* file order.                                                             *)
(***************************************************************************)
Tables == [papers |-> papers_csv, objects |-> objects_csv, evidence |-> evidence_csv]

\* A value as pandas reads it back from the CSV cell it was written to:
\* None and the empty string both come back as NA.
ToCell(v) == IF Truthy(v) THEN v ELSE NA

Range(s) == {s[i] : i \in DOMAIN s}

Column(table, col) == [i \in DOMAIN table |-> table[i][col]]

RECURSIVE SeqMax(_)
SeqMax(s) == IF Len(s) = 1 THEN s[1]
             ELSE LET m == SeqMax(Tail(s)) IN IF s[1] > m THEN s[1] ELSE m

(***************************************************************************)
(* update_database_files, step 1: papers.csv                               *)
(***************************************************************************)
NewPaper(citation_key, bib_info) ==
    [CitationKey |-> citation_key,
     Authors     |-> ToCell(bib_info.authors),
     Year        |-> bib_info.year,
     Title       |-> ToCell(bib_info.title),
     Publication |-> ToCell(bib_info.publication),
     URL         |-> NA]

\* The membership test left out: every derived key counts as new.
KeyIsNew_NoCheck(citation_key, papers_df) == TRUE

\* citation_key not in papers_df['CitationKey'].values
KeyIsNew(citation_key, papers_df) ==
    citation_key \notin Range(Column(papers_df, "CitationKey"))

UpdatePapers(papers_df, bib_info) ==
    IF Truthy(bib_info.title)
    THEN LET citation_key == create_citation_key(bib_info.authors, bib_info.year)
         IN  IF KeyIsNew(citation_key, papers_df)
             THEN Append(papers_df, NewPaper(citation_key, bib_info))
             ELSE papers_df
    ELSE papers_df

(***************************************************************************)
(* update_database_files, step 2: c_objects.csv                            *)
(***************************************************************************)
\* The isin filter left out: every candidate object is appended.
FilterNewObjects_KeepAll(new_objects, objects_df) == new_objects

\* new_obj_df[~new_obj_df['ObjectID'].isin(objects_df['ObjectID'])]
FilterNewObjects(new_objects, objects_df) ==
    LET existing == Range(Column(objects_df, "ObjectID"))
        IsNew(o) == o.ObjectID \notin existing
    IN  SelectSeq(new_objects, IsNew)

\* An upsert: a stored row takes the fields of a candidate with its ObjectID.
UpdateObjects_Upsert(objects_df, new_objects) ==
    LET Latest(row) ==
            IF \E i \in DOMAIN new_objects : new_objects[i].ObjectID = row.ObjectID
            THEN new_objects[CHOOSE i \in DOMAIN new_objects :
                                new_objects[i].ObjectID = row.ObjectID]
            ELSE row
    IN  [r \in DOMAIN objects_df |-> Latest(objects_df[r])]
            \o FilterNewObjects(new_objects, objects_df)

UpdateObjects(objects_df, new_objects) ==
    objects_df \o FilterNewObjects(new_objects, objects_df)

(***************************************************************************)
(* update_database_files, step 3: c_evidence.csv                           *)
(***************************************************************************)
\* CitationKey + SourceID + MorphismID + TargetID
unique_key(row) ==
    row.CitationKey \o row.SourceID \o row.MorphismID \o row.TargetID

\* ev['CitationKey'] = citation_key, for each ev of new_evidence
AttachKey(new_evidence, citation_key) ==
    [i \in DOMAIN new_evidence |->
        [CitationKey |-> citation_key,
         SourceID    |-> new_evidence[i].SourceID,
         MorphismID  |-> new_evidence[i].MorphismID,
         TargetID    |-> new_evidence[i].TargetID,
         Notes       |-> new_evidence[i].Notes]]

\* new_ev_df[~new_ev_df['unique_key'].isin(evidence_df['unique_key'])]
FilterNewEvidence(new_ev_df, evidence_df) ==
    LET existing == {unique_key(evidence_df[i]) : i \in DOMAIN evidence_df}
        IsNew(ev) == unique_key(ev) \notin existing
    IN  SelectSeq(new_ev_df, IsNew)

\* new_ev_df['EvidenceID'] = range(next_id, next_id + len(new_ev_df))
AssignIds(new_ev_df, next_id) ==
    [i \in DOMAIN new_ev_df |->
        [EvidenceID  |-> next_id + i - 1,
         CitationKey |-> new_ev_df[i].CitationKey,
         SourceID    |-> new_ev_df[i].SourceID,
         MorphismID  |-> new_ev_df[i].MorphismID,
         TargetID    |-> new_ev_df[i].TargetID,
         Notes       |-> ToCell(new_ev_df[i].Notes)]]

\* The next ID taken from the number of rows instead of the largest ID.
NextId_Count(evidence_df) == Len(evidence_df) + 1

\* evidence_df['EvidenceID'].max() + 1
NextId(evidence_df) == SeqMax(Column(evidence_df, "EvidenceID")) + 1

\* On a table without rows max() is NaN and range(NaN, ...) raises TypeError:
\* the except clause of update_database_files ends the merge, nothing is
\* written to the evidence file.
UpdateEvidence(evidence_df, new_evidence, bib_info) ==
    LET citation_key == create_citation_key(bib_info.authors, bib_info.year)
        new_ev_df == FilterNewEvidence(AttachKey(new_evidence, citation_key), evidence_df)
    IN  IF new_ev_df = <<>> THEN evidence_df
        ELSE IF evidence_df = <<>> THEN evidence_df
        ELSE evidence_df \o AssignIds(new_ev_df, NextId(evidence_df))

(***************************************************************************)
(* update_database_files(data, paths): the three tables after the merge of *)
(* one analyzer response into the tables t.                                *)
(***************************************************************************)
\* The whole merge skipped when the derived key is in Papers.
update_database_files_SkipSeen(t, d) ==
    IF ~KeyIsNew(create_citation_key(d.bibliographic.authors, d.bibliographic.year),
                 t.papers)
    THEN t
    ELSE [papers   |-> UpdatePapers(t.papers, d.bibliographic),
          objects  |-> UpdateObjects(t.objects, d.new_objects),
          evidence |-> UpdateEvidence(t.evidence, d.new_evidence, d.bibliographic)]

update_database_files(t, d) ==
    [papers   |-> UpdatePapers(t.papers, d.bibliographic),
     objects  |-> UpdateObjects(t.objects, d.new_objects),
     evidence |-> UpdateEvidence(t.evidence, d.new_evidence, d.bibliographic)]

(***************************************************************************)
(* update_database_files when an exception ends it early.  The except      *)
(* clause of line 257 prints and returns: what was written stays written.  *)
(*   "read"      pd.read_csv raises, the Papers or Evidence file is missing *)
(*   "papers"    papers_df.to_csv raises                                   *)
(*   "objects"   objects_df.to_csv raises                                  *)
(*   "evidence"  evidence_df.to_csv raises                                 *)
(***************************************************************************)
WriteFaults == {"papers", "objects", "evidence"}

\* to_csv is called for a table only when the merge has rows to add to it:
\* done is what the merge makes of the tables t when nothing fails.
Writes(t, done, table) == done[table] # t[table]

MergeStoppedAt(t, done, fault) ==
    [papers   |-> IF fault \in {"objects", "evidence"} THEN done.papers
                  ELSE t.papers,
     objects  |-> IF fault = "evidence" THEN done.objects ELSE t.objects,
     evidence |-> t.evidence]

\* The ways one call of update_database_files can go on the tables t.  A
\* write fails at most once in a run: after a failed write the later ones
\* succeed.
Faults(t, done, found, faulted) ==
    IF ~found THEN {"read"}
    ELSE IF faulted THEN {"none"}
    ELSE {"none"} \cup {fault \in WriteFaults : Writes(t, done, fault)}

(***************************************************************************)
(* Inputs: the analyzer responses a run may see.                           *)
(***************************************************************************)
AuthLiWu == <<"L", "i", ",", " ", "J", ".", ",", " ", "W", "u", ",", " ", "A", ".">>
AuthALi  == <<"A", ".", " ", "L", "i">>
AuthOWu  == <<" ", "P", ".", " ", "O", "'", "W", "u", " ", ",", "X">>

KeyLi2023 == <<"L", "i", "2", "0", "2", "3">>

Bib(authors, year, title) ==
    [authors |-> authors, year |-> year, title |-> title, publication |-> <<"J">>]

\* data.get('bibliographic', {}) of a response without the block.
NoBib == [authors |-> NA, year |-> NoneYear, title |-> NA, publication |-> NA]

Bibs ==
    {Bib(AuthLiWu, 2023, <<"T", "1">>),    \* key Li2023
     Bib(AuthALi, 2023, <<"T", "2">>),     \* another paper, key Li2023 too
     Bib(<<>>, 2023, <<"T", "3">>),        \* empty authors
     Bib(AuthOWu, NoneYear, <<"T", "5">>), \* no year
     Bib(NA, 2021, NA)}                    \* no authors and no title

ObjA == <<"t", ":", "a">>
ObjB == <<"t", ":", "a", "b">>

Obj(id, name) ==
    [ObjectID |-> id, Name |-> name, Type |-> <<"T", "h", "e", "o", "r", "y">>,
     Description |-> <<"D">>]

CandidateObjects == {Obj(ObjA, <<"N", "1">>), Obj(ObjB, <<"N", "1">>)}

Edge(s, m, t, notes) ==
    [SourceID |-> s, MorphismID |-> m, TargetID |-> t, Notes |-> notes]

\* The first two differ only in Notes; the third differs from them in SourceID
\* and MorphismID while the four fields concatenate to the same text.
CandidateEdges ==
    {Edge(ObjA, <<"b", "x">>, ObjA, <<"n", "1">>),
     Edge(ObjA, <<"b", "x">>, ObjA, NA),
     Edge(ObjB, <<"x">>, ObjA, <<"n", "1">>)}

\* The sequences over S of length at most n.
SeqsUpTo(S, n) == UNION {[1..k -> S] : k \in 0..n}

\* The responses that propose at most n candidate rows.
Responses(n) ==
    {[bibliographic |-> b, new_objects |-> os, new_evidence |-> es] :
        b \in Bibs,
        <<os, es>> \in {p \in SeqsUpTo(CandidateObjects, n)
                              \X SeqsUpTo(CandidateEdges, n) :
                           Len(p[1]) + Len(p[2]) <= n}}

EmptyResponse == [bibliographic |-> NoBib, new_objects |-> <<>>, new_evidence |-> <<>>]

(***************************************************************************)
(* The tables a run may start from: each satisfies the uniqueness          *)
(* invariants of the data model, and every Evidence row cites a paper of   *)
(* Papers.                                                                 *)
(***************************************************************************)
PaperLi ==
    [CitationKey |-> KeyLi2023, Authors |-> AuthLiWu, Year |-> 2023,
     Title |-> <<"T", "0">>, Publication |-> <<"J">>, URL |-> NA]

Ev(id, s, m, t) ==
    [EvidenceID |-> id, CitationKey |-> KeyLi2023, SourceID |-> s,
     MorphismID |-> m, TargetID |-> t, Notes |-> <<"n", "0">>]

InitialTables ==
    {[papers |-> <<>>, objects |-> <<>>, evidence |-> <<>>],
     [papers |-> <<PaperLi>>, objects |-> <<Obj(ObjA, <<"N", "0">>)>>,
      evidence |-> <<>>],
     [papers |-> <<PaperLi>>, objects |-> <<Obj(ObjA, <<"N", "0">>)>>,
      evidence |-> <<Ev(1, ObjA, <<"b", "x">>, ObjA)>>],
     [papers |-> <<PaperLi>>,
      objects |-> <<Obj(ObjB, <<"N", "0">>), Obj(ObjA, <<"N", "0">>)>>,
      evidence |-> <<Ev(4, ObjB, <<"b", "x">>, ObjB), Ev(2, ObjA, <<"x">>, ObjB)>>]}

(***************************************************************************)
(* The resolver, findurl.py.                                               *)
(***************************************************************************)
max_retries == 5

TextNA == <<"N", "A">>

Upper == <<"A", "B", "C", "D", "E", "F", "G", "H", "I", "J", "K", "L", "M",
           "N", "O", "P", "Q", "R", "S", "T", "U", "V", "W", "X", "Y", "Z">>
Lower == <<"a", "b", "c", "d", "e", "f", "g", "h", "i", "j", "k", "l", "m",
           "n", "o", "p", "q", "r", "s", "t", "u", "v", "w", "x", "y", "z">>

LowerChar(c) == IF \E k \in DOMAIN Upper : Upper[k] = c
                THEN Lower[CHOOSE k \in DOMAIN Upper : Upper[k] = c]
                ELSE c

\* s.lower()
ToLower(s) == [i \in DOMAIN s |-> LowerChar(s[i])]

\* s.startswith(prefix)
StartsWith(s, prefix) ==
    Len(s) >= Len(prefix) /\ SubSeq(s, 1, Len(prefix)) = prefix

\* s.endswith(suffix)
EndsWith(s, suffix) ==
    Len(s) >= Len(suffix) /\ SubSeq(s, Len(s) - Len(suffix) + 1, Len(s)) = suffix

\* url.startswith("http") and url.lower().endswith(".pdf")
IsPlausibleUrl(url) ==
    /\ StartsWith(url, <<"h", "t", "t", "p">>)
    /\ EndsWith(ToLower(url), <<".", "p", "d", "f">>)

\* What one call of the analyzer can come back with: status 429; a transport
\* failure or another bad status (RequestException); a body that is not JSON;
\* JSON without candidates; JSON whose first candidate carries a text.
RateLimited == [kind |-> "rate_limited", text |-> <<>>]

Failures ==
    {[kind |-> k, text |-> <<>>] :
        k \in {"transport_error", "http_error", "bad_json", "no_candidates"}}

AcceptableTexts ==
    {<<"h", "t", "t", "p", ":", "/", "/", "a", "/", "1", ".", "p", "d", "f">>,
     <<" ", "h", "t", "t", "p", "s", ":", "/", "/", "a", "/", "2", ".", "P", "D", "F", "\n">>}

OtherTexts ==
    {TextNA,
     <<"h", "t", "t", "p", "s", ":", "/", "/", "a", "/", "p", "a", "p", "e", "r">>,
     <<"f", "t", "p", ":", "/", "/", "a", "/", "1", ".", "p", "d", "f">>}

\* Texts on the border of the validation: one that begins with the letters
\* "http" and is no URL, and a URL whose path ends in .pdf and that goes on
\* with a query.
BorderTexts ==
    {<<"h", "t", "t", "p", "f", "o", "o", ".", "p", "d", "f">>,
     <<"h", "t", "t", "p", ":", "/", "/", "a", "/", "1", ".", "p", "d", "f", "?", "x">>}

TextAnswers(texts) == {[kind |-> "text", text |-> t] : t \in texts}

\* The analyzer answers 429 to the first `limited` calls for a row and `final`
\* to every later one.
Scripts ==
    [limited : 0..max_retries,
     final : Failures
               \cup TextAnswers(AcceptableTexts \cup OtherTexts \cup BorderTexts)]

Answer(script, attempt) ==
    IF attempt < script.limited THEN RateLimited ELSE script.final

\* Lines 147-161: the URL for a response that is not a 429.
ParseAnswer(a) ==
    IF a.kind = "text" /\ IsPlausibleUrl(Strip(a.text)) THEN Strip(a.text)
    ELSE TextNA

\* The answer is retried on every error, not only on status 429.
IsRateLimit_AnyError(a) == a.kind # "text"

\* if response.status_code == 429
IsRateLimit(a) == a.kind = "rate_limited"

\* The retry goes on without time.sleep(wait_time).
RateLimitedStep_NoSleep == <<"call">>

\* Lines 138-145: a call that came back 429 is followed by the backoff sleep.
RateLimitedStep == <<"call", "wait">>

\* for attempt in range(max_retries): ...; the result, the calls made, the
\* backoff waits slept, and the calls and waits in the order they happened.
RECURSIVE RetryLoop(_, _)
RetryLoop(script, attempt) ==
    IF attempt = max_retries
    THEN [url |-> TextNA, calls |-> attempt, waits |-> attempt, log |-> <<>>]
    ELSE IF IsRateLimit(Answer(script, attempt))
         THEN [RetryLoop(script, attempt + 1) EXCEPT !.log = RateLimitedStep \o @]
         ELSE [url |-> ParseAnswer(Answer(script, attempt)),
               calls |-> attempt + 1, waits |-> attempt, log |-> <<"call">>]

get_pdf_url_with_retry(script) == RetryLoop(script, 0)

\* df['URL'] = pd.NA
ClearUrls(table) == [i \in DOMAIN table |-> [table[i] EXCEPT !.URL = NA]]

\* The resumption branch left out: every run starts from the input file.
LoadTable_Fresh(input, output) == ClearUrls(input)

\* Lines 55-62: the table main() starts from.
LoadTable(input, output) ==
    IF output.exists THEN output.rows ELSE ClearUrls(input)

\* The test for "NA" left out: whatever came back is written.
UrlFound_Always(url) == TRUE

\* if url != "NA"
UrlFound(url) == url # TextNA

\* The rows the analyzer can find a PDF for.
Resolvable(i) == i > 1

Url0 == <<"h", "t", "t", "p", ":", "/", "/", "a", "/", "0", ".", "p", "d", "f">>

PaperRow(i, url) ==
    [Title |-> <<"T">> \o IntToStr(i), Authors |-> AuthLiWu, Year |-> 2020 + i,
     URL |-> url]

\* The input tables: a URL column is absent or empty, or holds a URL in row 1.
InputTables ==
    {[i \in 1..NumRows |-> PaperRow(i, IF i = 1 THEN u ELSE NA)] : u \in {NA, Url0}}

\* The answer that ended the attempts for a row: the first that was not a 429,
\* or the 429 of the last attempt.
LastAnswer(script) ==
    IF script.limited >= max_retries THEN RateLimited ELSE script.final

NoRow == [row |-> 0, kind |-> "none", answer |-> RateLimited, url |-> TextNA,
          had_url |-> FALSE, limited |-> 0, calls |-> 0, waits |-> 0,
          log |-> <<>>]

\* A process that has not ended has no exit status.
NoExit == -1

\* What makes main() of the ingestor call sys.exit(1) before the first
\* document.
StartupErrors == {"no_api_key", "no_pdf_on_stdin", "no_objects_or_morphisms_file"}

EmptyTables == [papers |-> <<>>, objects |-> <<>>, evidence |-> <<>>]

\* The rows of a table that have a URL.
WithUrl(table) == {i \in DOMAIN table : table[i].URL # NA}

NoRun == [after_kill |-> FALSE, loaded |-> {}]

\* The resolver before its first run: no output file, no process.
ResolverIdle ==
    /\ output_csv = [exists |-> FALSE, rows |-> <<>>]
    /\ df = <<>>
    /\ pc = "stopped"
    /\ idx = 0
    /\ last = NoRow
    /\ run = NoRun
    /\ interrupts = 0
    /\ exit_code = NoExit

\* The ingestor process before main() has run.
NotStarted ==
    [pc |-> "starting", exit_code |-> NoExit, cause |-> "none", found |-> TRUE,
     fault |-> "none", faulted |-> FALSE, rerun |-> FALSE]

Instances == {1, 2}

\* A process that has not called update_database_files.
IdleInstance ==
    [pc |-> "idle", data |-> EmptyResponse, papers_df |-> <<>>,
     objects_df |-> <<>>, evidence_df |-> <<>>, added |-> FALSE]

NoInstances == [i \in Instances |-> IdleInstance]

\* The ingestor not running, its tables empty.
IngestIdle ==
    /\ inst = NoInstances
    /\ papers_csv = <<>>
    /\ objects_csv = <<>>
    /\ evidence_csv = <<>>
    /\ pre = [papers |-> <<>>, objects |-> <<>>, evidence |-> <<>>]
    /\ data = [bibliographic |-> NoBib, new_objects |-> <<>>, new_evidence |-> <<>>]
    /\ docs = 0
    /\ proposed = 0
    /\ ingestor = NotStarted

\* The key is set and the input file is in place.
GoodEnv == [key |-> TRUE, input_found |-> TRUE]

InitResolver ==
    /\ input_csv \in InputTables
    /\ env = GoodEnv
    /\ ResolverIdle
    /\ IngestIdle

\* The resolver in whatever environment it is started in.
InitResolverEnv ==
    /\ input_csv \in InputTables
    /\ env \in [key : BOOLEAN, input_found : BOOLEAN]
    /\ ResolverIdle
    /\ IngestIdle

\* Lines 47-52 and 55-62: main() goes on to process_papers when the key is
\* set and the output file or, without it, the input file can be read.
CanStart == env.key /\ (output_csv.exists \/ env.input_found)

\* main(), lines 44-74, with the API key set and the input file in place.
Start ==
    /\ pc = "stopped"
    /\ CanStart
    /\ pc' = "running"
    /\ exit_code' = NoExit
    /\ df' = LoadTable(input_csv, output_csv)
    /\ idx' = 1
    /\ last' = NoRow
    /\ run' = [after_kill |-> run.after_kill, loaded |-> WithUrl(df')]
    /\ UNCHANGED <<input_csv, output_csv, interrupts, env>>
    /\ UNCHANGED ingestVars

\* main(), lines 47-52 and 63-68: without the key, or without the input file
\* on a fresh start, main() prints the error and returns; the interpreter
\* ends with status 0.
StartFails ==
    /\ pc = "stopped"
    /\ ~CanStart
    /\ exit_code = NoExit
    /\ exit_code' = 0
    /\ UNCHANGED <<input_csv, output_csv, df, pc, idx, last, run, interrupts, env>>
    /\ UNCHANGED ingestVars

\* process_papers, a row whose URL is present: nothing is asked.
SkipRow ==
    /\ pc = "running"
    /\ idx <= Len(df)
    /\ df[idx].URL # NA
    /\ idx' = idx + 1
    /\ last' = [row |-> idx, kind |-> "skipped", answer |-> RateLimited,
                 url |-> TextNA, had_url |-> TRUE, limited |-> 0, calls |-> 0,
                 waits |-> 0, log |-> <<>>]
    /\ UNCHANGED <<input_csv, output_csv, df, pc, run, interrupts, env, exit_code>>
    /\ UNCHANGED ingestVars

\* url = get_pdf_url_with_retry(...), line 98, under each behaviour of the
\* analyzer.
Outcomes ==
    {[script |-> script, result |-> get_pdf_url_with_retry(script),
      url |-> get_pdf_url_with_retry(script).url] :
        script \in Scripts}

\* The behaviours of the analyzer that end with a URL for the row, and those
\* that end with "NA".
ResolvingOutcomes == {o \in Outcomes : o.url # TextNA}

FailingOutcomes == {o \in Outcomes : o.url = TextNA}

\* process_papers, a row whose URL is missing: the analyzer is asked, and the
\* table is updated and saved when a URL came back.
QueryRowWith(outcomes) ==
    /\ pc = "running"
    /\ idx <= Len(df)
    /\ df[idx].URL = NA
    /\ \E o \in outcomes :
          LET url == o.url
              had == output_csv.exists /\ output_csv.rows[idx].URL # NA
          IN  /\ IF UrlFound(url)
                 THEN /\ df' = [df EXCEPT ![idx].URL = url]
                      /\ output_csv' = [exists |-> TRUE, rows |-> df']
                 ELSE UNCHANGED <<df, output_csv>>
              /\ last' = [row |-> idx, kind |-> "queried",
                           answer |-> LastAnswer(o.script), url |-> url,
                           had_url |-> had, limited |-> o.script.limited,
                           calls |-> o.result.calls, waits |-> o.result.waits,
                           log |-> o.result.log]
    /\ idx' = idx + 1
    /\ UNCHANGED <<input_csv, pc, run, interrupts, env, exit_code>>
    /\ UNCHANGED ingestVars

\* The analyzer answers the query for row i with an acceptable URL.
QueryResolves(i) ==
    /\ idx = i
    /\ Resolvable(i)
    /\ QueryRowWith(ResolvingOutcomes)

\* The analyzer fails, keeps answering 429, or answers with text that is no
\* acceptable URL.
QueryFails == QueryRowWith(FailingOutcomes)

\* process_papers, lines 100-103: the analyzer answered with an acceptable
\* URL and df.to_csv raises (the file cannot be written).  Nothing catches
\* the exception: it leaves process_papers and main(), the process ends with
\* a traceback and status 1, the output file is as it was.
WriteFails ==
    /\ pc = "running"
    /\ idx <= Len(df)
    /\ df[idx].URL = NA
    /\ ResolvingOutcomes # {}
    /\ pc' = "stopped"
    /\ df' = <<>>
    /\ idx' = 0
    /\ run' = NoRun
    /\ last' = [NoRow EXCEPT !.row = idx, !.kind = "write_failed"]
    /\ exit_code' = 1
    /\ UNCHANGED <<input_csv, output_csv, interrupts, env>>
    /\ UNCHANGED ingestVars

\* The loop is over: main(), lines 76-84, prints that the database is saved
\* in the output file and reads it for the preview.  When no URL was accepted
\* since the fresh start the file does not exist, read_csv raises
\* FileNotFoundError and the process ends with a traceback and status 1.
Finish ==
    /\ pc = "running"
    /\ idx > Len(df)
    /\ pc' = "stopped"
    /\ df' = <<>>
    /\ idx' = 0
    /\ run' = NoRun
    /\ exit_code' = IF output_csv.exists THEN 0 ELSE 1
    /\ UNCHANGED <<input_csv, output_csv, last, interrupts, env>>
    /\ UNCHANGED ingestVars

\* The process is killed between two rows: the in-memory table is lost.
Interrupt ==
    /\ pc = "running"
    /\ interrupts < MaxInterrupts
    /\ pc' = "stopped"
    /\ df' = <<>>
    /\ idx' = 0
    /\ interrupts' = interrupts + 1
    /\ run' = [after_kill |-> TRUE, loaded |-> {}]
    /\ UNCHANGED <<input_csv, output_csv, last, env, exit_code>>
    /\ UNCHANGED ingestVars

QueryResolvesSome == \E i \in 1..NumRows : QueryResolves(i)

NextResolver ==
    \/ Start
    \/ SkipRow
    \/ QueryResolvesSome
    \/ QueryFails
    \/ Finish
    \/ Interrupt

(***************************************************************************)
(* The ingestor: main() of update_database.py, one action per document.    *)
(***************************************************************************)
Init ==
    /\ \E t \in InitialTables :
          /\ papers_csv = t.papers
          /\ objects_csv = t.objects
          /\ evidence_csv = t.evidence
          /\ pre = t
    /\ data = EmptyResponse
    /\ docs = 0
    /\ proposed = 0
    /\ ingestor = NotStarted
    /\ inst = NoInstances
    /\ input_csv = <<>>
    /\ env = GoodEnv
    /\ ResolverIdle

\* The process has ended: the three files are what is left of it, the
\* history of its last merge is dropped.
ProcessGone ==
    /\ pre' = Tables
    /\ data' = EmptyResponse
    /\ docs' = 0
    /\ proposed' = 0

\* main(), lines 282-296: sys.exit(1) when GEMINI_API_KEY is not set, when no
\* .pdf path came on stdin, or when the Objects or Morphisms file is missing.
StartupFails ==
    /\ ingestor.pc = "starting"
    /\ \E cause \in StartupErrors :
          ingestor' = [ingestor EXCEPT !.pc = "exited", !.exit_code = 1,
                                       !.cause = cause]
    /\ UNCHANGED <<papers_csv, objects_csv, evidence_csv, pre, data, docs, proposed>>
    /\ UNCHANGED <<inst, resolverVars>>

\* main() reaches the loop over the piped documents.  The Papers and Evidence
\* files are not looked at before the first merge: they may be missing.
Startup ==
    /\ ingestor.pc = "starting"
    /\ \E found \in (IF Tables = EmptyTables THEN BOOLEAN ELSE {TRUE}) :
          ingestor' = [ingestor EXCEPT !.pc = "running", !.found = found]
    /\ UNCHANGED <<papers_csv, objects_csv, evidence_csv, pre, data, docs, proposed>>
    /\ UNCHANGED <<inst, resolverVars>>

\* if extracted_data: update_database_files(extracted_data, paths)
MergeDocument ==
    /\ ingestor.pc = "running"
    /\ docs < MaxDocs
    /\ \E d \in Responses(MaxNew - proposed) :
          \E fault \in Faults(Tables, update_database_files(Tables, d),
                                ingestor.found, ingestor.faulted) :
              LET done == update_database_files(Tables, d)
                  t == IF fault = "none" THEN done
                       ELSE MergeStoppedAt(Tables, done, fault)
              IN  /\ papers_csv' = t.papers
                  /\ objects_csv' = t.objects
                  /\ evidence_csv' = t.evidence
                  /\ pre' = Tables
                  /\ data' = d
                  /\ proposed' = proposed + Len(d.new_objects) + Len(d.new_evidence)
                  /\ ingestor' =
                        [ingestor EXCEPT
                            !.fault = fault,
                            !.faulted = ingestor.faulted \/ fault \in WriteFaults,
                            !.rerun = /\ ingestor.fault \in {"objects", "evidence"}
                                      /\ d = data]
    /\ docs' = docs + 1
    /\ UNCHANGED <<inst, resolverVars>>

\* The file does not exist, or analyze_pdf_with_gemini returned None after a
\* transport error, a bad status, a reply that is not JSON or a reply with an
\* empty candidates list: the document is passed over and the loop goes on.
SkipDocument ==
    /\ ingestor.pc = "running"
    /\ docs < MaxDocs
    /\ docs' = docs + 1
    /\ UNCHANGED <<papers_csv, objects_csv, evidence_csv, pre, data, proposed,
                   ingestor>>
    /\ UNCHANGED <<inst, resolverVars>>

\* analyze_pdf_with_gemini, lines 173-184: the reply is JSON without the key
\* 'candidates' (or 'content', 'parts', 'text').  The subscript raises KeyError
\* before result_text is bound, the handler of line 182 prints result_text,
\* and the UnboundLocalError it raises leaves the handler, the function and
\* the loop of main(): the process ends with a traceback.
AnalyzeAborts ==
    /\ ingestor.pc = "running"
    /\ docs < MaxDocs
    /\ ingestor' = [NotStarted EXCEPT !.pc = "aborted", !.exit_code = 1,
                                     !.cause = "unbound_result_text"]
    /\ ProcessGone
    /\ UNCHANGED <<papers_csv, objects_csv, evidence_csv>>
    /\ UNCHANGED <<inst, resolverVars>>

\* The loop of main() has handled every piped document: main() returns.
EndOfInput ==
    /\ ingestor.pc = "running"
    /\ docs = MaxDocs
    /\ ingestor' = [NotStarted EXCEPT !.pc = "exited", !.exit_code = 0,
                                     !.found = ingestor.found]
    /\ ProcessGone
    /\ UNCHANGED <<papers_csv, objects_csv, evidence_csv>>
    /\ UNCHANGED <<inst, resolverVars>>

Next ==
    \/ StartupFails
    \/ Startup
    \/ MergeDocument
    \/ SkipDocument
    \/ AnalyzeAborts
    \/ EndOfInput

Spec == Init /\ [][Next]_vars

(***************************************************************************)
(* Two ingestor processes on the same three files.  Each runs              *)
(* update_database_files once; its reads (lines 194-196) and each of its   *)
(* to_csv calls (lines 212, 225, 254) are steps the other process can come *)
(* between.  A to_csv call replaces the file as a whole.                   *)
(***************************************************************************)
\* A rewrite that adds the last row of the frame to whatever is in the file.
to_csv_AppendLast(file, frame) == Append(file, frame[Len(frame)])

\* DataFrame.to_csv(path, index=False): the file becomes the frame.
to_csv(file, frame) == frame

InitConcurrent ==
    /\ \E t \in InitialTables :
          /\ papers_csv = t.papers
          /\ objects_csv = t.objects
          /\ evidence_csv = t.evidence
          /\ pre = t
    /\ data = EmptyResponse
    /\ docs = 0
    /\ proposed = 0
    /\ ingestor = NotStarted
    /\ inst = NoInstances
    /\ input_csv = <<>>
    /\ env = GoodEnv
    /\ ResolverIdle

\* Lines 194-196: the process loads the three files for the response it got.
ReadTables(i) ==
    /\ inst[i].pc = "idle"
    /\ \E d \in Responses(MaxNew - proposed) :
          /\ inst' = [inst EXCEPT ![i] =
                         [pc |-> "papers", data |-> d, papers_df |-> papers_csv,
                          objects_df |-> objects_csv, evidence_df |-> evidence_csv,
                          added |-> FALSE]]
          /\ proposed' = proposed + Len(d.new_objects) + Len(d.new_evidence)
    /\ UNCHANGED <<papers_csv, objects_csv, evidence_csv, pre, data, docs, ingestor>>
    /\ UNCHANGED resolverVars

\* Lines 198-215: the key is looked up in the frame the process loaded; a new
\* row goes into the frame, and the frame into the file.
WritePapers(i) ==
    /\ inst[i].pc = "papers"
    /\ LET frame == UpdatePapers(inst[i].papers_df, inst[i].data.bibliographic)
           added == frame # inst[i].papers_df
       IN  /\ papers_csv' = IF added THEN to_csv(papers_csv, frame) ELSE papers_csv
           /\ inst' = [inst EXCEPT ![i].pc = "objects", ![i].papers_df = frame,
                                   ![i].added = added]
    /\ UNCHANGED <<objects_csv, evidence_csv, pre, data, docs, proposed, ingestor>>
    /\ UNCHANGED resolverVars

\* Lines 217-227.
WriteObjects(i) ==
    /\ inst[i].pc = "objects"
    /\ LET frame == UpdateObjects(inst[i].objects_df, inst[i].data.new_objects)
       IN  /\ objects_csv' = IF frame # inst[i].objects_df
                             THEN to_csv(objects_csv, frame) ELSE objects_csv
           /\ inst' = [inst EXCEPT ![i].pc = "evidence", ![i].objects_df = frame]
    /\ UNCHANGED <<papers_csv, evidence_csv, pre, data, docs, proposed, ingestor>>
    /\ UNCHANGED resolverVars

\* Lines 229-255, and the return of update_database_files.
WriteEvidence(i) ==
    /\ inst[i].pc = "evidence"
    /\ LET frame == UpdateEvidence(inst[i].evidence_df, inst[i].data.new_evidence,
                                   inst[i].data.bibliographic)
       IN  /\ evidence_csv' = IF frame # inst[i].evidence_df
                              THEN to_csv(evidence_csv, frame) ELSE evidence_csv
           /\ inst' = [inst EXCEPT ![i].pc = "done", ![i].evidence_df = frame]
    /\ UNCHANGED <<papers_csv, objects_csv, pre, data, docs, proposed, ingestor>>
    /\ UNCHANGED resolverVars

NextConcurrent ==
    \E i \in Instances :
        \/ ReadTables(i)
        \/ WritePapers(i)
        \/ WriteObjects(i)
        \/ WriteEvidence(i)

SpecConcurrent == InitConcurrent /\ [][NextConcurrent]_vars

(***************************************************************************)
(* The resolver alone, and the resolver under fair scheduling: a stopped   *)
(* resolver is started again, a running one goes on to the next row, and   *)
(* the analyzer, asked for a resolvable row again and again, answers with  *)
(* an acceptable URL at some time.                                         *)
(***************************************************************************)
SpecResolver == InitResolver /\ [][NextResolver]_vars

\* The resolver with the errors of its environment: a missing key, a missing
\* input file, an output file that cannot be written.
NextResolverEnv ==
    \/ Start
    \/ StartFails
    \/ SkipRow
    \/ QueryResolvesSome
    \/ QueryFails
    \/ WriteFails
    \/ Finish
    \/ Interrupt

SpecResolverEnv == InitResolverEnv /\ [][NextResolverEnv]_vars

SpecResolverFair ==
    /\ SpecResolver
    /\ WF_vars(Start)
    /\ WF_vars(SkipRow)
    /\ WF_vars(Finish)
    /\ WF_vars(QueryFails \/ QueryResolvesSome)
    /\ \A i \in 1..NumRows : SF_vars(QueryResolves(i))

(***************************************************************************)
(* Properties of the ingestor.                                             *)
(***************************************************************************)
Distinct(s) == \A i, j \in DOMAIN s : i # j => s[i] # s[j]

IsPrefix(s, t) == Len(s) <= Len(t) /\ SubSeq(t, 1, Len(s)) = s

\* The rows of table t that follow the first n.
RowsAfter(t, n) == SubSeq(t, n + 1, Len(t))

EdgeTuple(row) == <<row.CitationKey, row.SourceID, row.MorphismID, row.TargetID>>

EdgeTuples(table) == [i \in DOMAIN table |-> EdgeTuple(table[i])]

DerivedKey(d) == create_citation_key(d.bibliographic.authors, d.bibliographic.year)

InitialKeys == UNION {Range(Column(t.papers, "CitationKey")) : t \in InitialTables}

PapersKeysDistinct == Distinct(Column(papers_csv, "CitationKey"))
ObjectIdsDistinct == Distinct(Column(objects_csv, "ObjectID"))
EdgeTuplesDistinct == Distinct(EdgeTuples(evidence_csv))

\* C1: merging the response of a completed merge a second time leaves Papers,
\* Objects and Evidence as the first merge left them, and the tables hold no
\* two Papers rows with one CitationKey, no two Objects rows with one ObjectID
\* and no two Evidence rows with one (CitationKey, SourceID, MorphismID,
\* TargetID) tuple.
C1_IdempotentNoDuplicates ==
    /\ ingestor.fault = "none" => update_database_files(Tables, data) = Tables
    /\ PapersKeysDistinct
    /\ ObjectIdsDistinct
    /\ EdgeTuplesDistinct

\* C2: the CitationKey values of Papers are pairwise distinct after every
\* merge of a run that started from a table with pairwise distinct keys.
C2_PapersKeysDistinct == PapersKeysDistinct

\* Two documents of one run derived the same key: the key of the last merged
\* response is in Papers since an earlier merge of this run.
C2_Witness ==
    /\ docs = MaxDocs
    /\ Truthy(data.bibliographic.title)
    /\ DerivedKey(data) \in Range(Column(pre.papers, "CitationKey"))
    /\ DerivedKey(data) \notin InitialKeys

\* C3: the ObjectID values of Objects are pairwise distinct after every merge,
\* whatever list of candidate objects a response carries.
C3_ObjectIdsDistinct == ObjectIdsDistinct

\* C4: no two Evidence rows have the same (CitationKey, SourceID, MorphismID,
\* TargetID) tuple after any merge, also when one response carries the tuple
\* twice.
C4_EdgeTuplesDistinct == EdgeTuplesDistinct

\* The candidates of new_evidence at the strictly increasing positions f are,
\* in that order, the rows.
PicksInOrder(f, new_evidence, rows) ==
    /\ \A i, j \in DOMAIN f : i < j => f[i] < f[j]
    /\ \A i \in DOMAIN rows :
          /\ rows[i].SourceID = new_evidence[f[i]].SourceID
          /\ rows[i].MorphismID = new_evidence[f[i]].MorphismID
          /\ rows[i].TargetID = new_evidence[f[i]].TargetID
          /\ rows[i].Notes = new_evidence[f[i]].Notes

\* C5: EvidenceID values are pairwise distinct; the rows a merge inserted
\* follow the rows that were there, carry the IDs max+1, max+2, ... where max
\* is the largest EvidenceID of the table as persisted before the merge, and
\* stand in the order their edges have in the response.
C5_EvidenceIdsSequential ==
    /\ Distinct(Column(evidence_csv, "EvidenceID"))
    /\ IsPrefix(pre.evidence, evidence_csv)
    /\ LET n == Len(pre.evidence)
           inserted == RowsAfter(evidence_csv, n)
       IN  /\ \A i \in DOMAIN inserted :
                 /\ inserted[i].EvidenceID = SeqMax(Column(pre.evidence, "EvidenceID")) + i
                 /\ \A k \in DOMAIN pre.evidence :
                       inserted[i].EvidenceID > pre.evidence[k].EvidenceID
           /\ \E f \in [DOMAIN inserted -> DOMAIN data.new_evidence] :
                 PicksInOrder(f, data.new_evidence, inserted)

\* A merge inserted two different edges into a table whose last row does not
\* hold the largest EvidenceID.
C5_Witness ==
    /\ Len(evidence_csv) = Len(pre.evidence) + 2
    /\ data.new_evidence[1] # data.new_evidence[2]
    /\ pre.evidence[Len(pre.evidence)].EvidenceID
          < SeqMax(Column(pre.evidence, "EvidenceID"))

\* The last merge ran to its end: no read and no write failed.
MergeCompleted == ingestor.pc = "running" /\ ingestor.fault = "none"

\* C16: a completed merge of a response with at least one edge into an
\* Evidence table without rows inserts rows, and their EvidenceIDs are 1, 2,
\* ... in table order.
C16_SequenceStartsAtOne ==
    (MergeCompleted /\ pre.evidence = <<>> /\ data.new_evidence # <<>>) =>
        /\ evidence_csv # <<>>
        /\ \A i \in DOMAIN evidence_csv : evidence_csv[i].EvidenceID = i

\* Key derivation as the data model states it: no key without authors or
\* without a year.
KeyDerivationFails(bib_info) ==
    ~Truthy(bib_info.authors) \/ bib_info.year = NoneYear

\* C9: a merge of a response without authors or without a year inserts
\* nothing: Papers, Objects and Evidence are as they were before it.
C9_KeyFailureInsertsNothing ==
    KeyDerivationFails(data.bibliographic) => Tables = pre

KeyAlreadySeen == DerivedKey(data) \in Range(Column(pre.papers, "CitationKey"))

RerunAfterGap == MergeCompleted /\ ingestor.rerun /\ KeyAlreadySeen

Signatures(table) == {unique_key(table[i]) : i \in DOMAIN table}

\* C17 as stated: the second merge adds no Evidence rows.
C17_RerunAddsNoEvidence == RerunAfterGap => evidence_csv = pre.evidence

\* C17 as amended: the second merge finds the key in Papers and leaves Papers
\* as it is, and it goes on to the edges: when Evidence has rows, every edge of
\* the response has its signature (CitationKey, SourceID, MorphismID and
\* TargetID concatenated) in Evidence afterwards, the missing ones appended
\* after the existing rows; only when Evidence has no rows is nothing added.
C17_RerunAddsMissingEvidence ==
    RerunAfterGap =>
        /\ papers_csv = pre.papers
        /\ IsPrefix(pre.evidence, evidence_csv)
        /\ pre.evidence # <<>> =>
              Signatures(AttachKey(data.new_evidence, DerivedKey(data)))
                  \subseteq Signatures(evidence_csv)
        /\ pre.evidence = <<>> => evidence_csv = <<>>

\* The second merge added the evidence the first one had not written.
C17_Witness ==
    /\ RerunAfterGap
    /\ Len(evidence_csv) > Len(pre.evidence)

\* The candidate objects of the last response whose ObjectID was stored
\* before the merge, under another Name.
KnownObjectsRenamed ==
    {c \in Range(data.new_objects) :
        \E r \in DOMAIN pre.objects :
            /\ pre.objects[r].ObjectID = c.ObjectID
            /\ pre.objects[r].Name # c.Name}

\* C19: after every merge, completed or stopped at a failed write, the rows
\* Papers, Objects and Evidence held before the merge are the first rows of the
\* tables, each unchanged and in the same order, so new rows only follow them;
\* a row of Objects whose ObjectID a candidate carries keeps its Name, Type and
\* Description.
C19_AppendOnly ==
    /\ IsPrefix(pre.papers, papers_csv)
    /\ IsPrefix(pre.objects, objects_csv)
    /\ IsPrefix(pre.evidence, evidence_csv)
    /\ \A r \in DOMAIN pre.objects :
          /\ r \in DOMAIN objects_csv
          /\ objects_csv[r].ObjectID = pre.objects[r].ObjectID
          /\ objects_csv[r].Name = pre.objects[r].Name
          /\ objects_csv[r].Type = pre.objects[r].Type
          /\ objects_csv[r].Description = pre.objects[r].Description

\* A merge added a Papers row and an Objects row, and the response also
\* carried a stored ObjectID under another Name.
C19_Witness ==
    /\ MergeCompleted
    /\ KnownObjectsRenamed # {}
    /\ Len(papers_csv) > Len(pre.papers)
    /\ Len(objects_csv) > Len(pre.objects)
    /\ pre.papers # <<>>

\* C20: as long as every merge of the run ran to completion, every Evidence
\* row's CitationKey is the CitationKey of a row in Papers (the tables the run
\* started from satisfy this); so a response that yields no Papers row adds no
\* Evidence rows.
C20_EvidenceCitesPapers ==
    ~ingestor.faulted =>
        \A r \in DOMAIN evidence_csv :
            evidence_csv[r].CitationKey \in Range(Column(papers_csv, "CitationKey"))

\* The edges of the last response, with the key of its document, as the
\* (CitationKey, SourceID, MorphismID, TargetID) tuples they would be stored
\* under.
CandidateTuples == EdgeTuples(AttachKey(data.new_evidence, DerivedKey(data)))

\* C21: after a completed merge into an Evidence table that has rows, every
\* candidate edge whose (CitationKey, SourceID, MorphismID, TargetID) tuple
\* differs from the tuple of every row stored before the merge is in Evidence,
\* also when its four fields concatenate to the text of a stored edge.
C21_NoFalseDuplicates ==
    (MergeCompleted /\ pre.evidence # <<>>) =>
        \A tuple \in Range(CandidateTuples) :
            tuple \notin Range(EdgeTuples(pre.evidence)) =>
                tuple \in Range(EdgeTuples(evidence_csv))

RowsWithKey(table, key) == {r \in DOMAIN table : table[r].CitationKey = key}

\* Both processes found the same key missing from the Papers frame they had
\* loaded, and both have rewritten the Papers file with a row of that key.
SameKeyRace ==
    /\ inst[1].added
    /\ inst[2].added
    /\ DerivedKey(inst[1].data) = DerivedKey(inst[2].data)

\* C18 as stated: when both processes have decided that the same key is new and
\* have rewritten Papers, the persisted Papers table holds two rows with that
\* key.
C18_DoubleInsert ==
    SameKeyRace =>
        Cardinality(RowsWithKey(papers_csv, DerivedKey(inst[1].data))) = 2

\* C18 as amended: both processes can decide that the same key is new, but each
\* rewrite replaces the whole file by the writer's own frame.  The persisted
\* Papers table is then the frame of one of the processes that added a row: it
\* holds one row with the key, never two, and whatever the other process had
\* added is gone.
C18_LastWriterWins ==
    /\ PapersKeysDistinct
    /\ SameKeyRace =>
          Cardinality(RowsWithKey(papers_csv, DerivedKey(inst[1].data))) = 1
    /\ (\E i \in Instances : inst[i].added) =>
          \E i \in Instances : inst[i].added /\ papers_csv = inst[i].papers_df

\* Both processes loaded Papers before either wrote it, and both added the key.
C18_Witness ==
    /\ SameKeyRace
    /\ Len(inst[1].papers_df) = Len(inst[2].papers_df)

(***************************************************************************)
(* Properties of the resolver.                                             *)
(***************************************************************************)
AllResolvableResolved ==
    /\ output_csv.exists
    /\ \A i \in 1..NumRows : Resolvable(i) => output_csv.rows[i].URL # NA

\* C6: the analyzer is never called for a row whose URL is present in the
\* persisted output table, and under fair scheduling, with an analyzer that
\* answers each resolvable row with an acceptable URL at some time, every
\* resolvable row has a URL in the output table from some time on, however
\* the runs were interrupted.
C6_Resumable ==
    /\ [](last.kind = "queried" => ~last.had_url)
    /\ <>[]AllResolvableResolved

\* A run that was started after a kill found some rows resolved, resolved
\* another one, and every resolvable row has its URL.
C6_Witness ==
    /\ pc = "running"
    /\ run.after_kill
    /\ run.loaded # {}
    /\ \E i \in 1..NumRows : Resolvable(i) /\ i \notin run.loaded
    /\ AllResolvableResolved

\* The candidate of the last query passed validation.
CandidateAccepted ==
    /\ last.answer.kind = "text"
    /\ LET url == Strip(last.answer.text)
       IN  StartsWith(url, <<"h", "t", "t", "p">>)
             /\ EndsWith(ToLower(url), <<".", "p", "d", "f">>)

\* The table the next run of the resolver starts from.
Resumption == IF output_csv.exists THEN output_csv.rows ELSE ClearUrls(input_csv)

\* Between two rows: the row just queried has a URL only if its candidate
\* passed validation, and then that candidate; a row that ended failed has no
\* URL, in memory and for the next run.
WriteOnlyAccepted ==
    (pc = "running" /\ last.kind = "queried") =>
        /\ df[last.row].URL # NA =>
              CandidateAccepted /\ df[last.row].URL = Strip(last.answer.text)
        /\ ~CandidateAccepted =>
              df[last.row].URL = NA /\ Resumption[last.row].URL = NA

\* C7 as stated: a URL is written only for an accepted candidate, a failed row
\* keeps no URL, and at every point between rows the persisted output equals
\* the in-memory table.
C7_WriteRule ==
    /\ WriteOnlyAccepted
    /\ pc = "running" => (output_csv.exists /\ output_csv.rows = df)

\* C7 as amended: as stated, but the persisted output equals the in-memory
\* table whenever the output file exists; a fresh start has no output file
\* until the first accepted URL of the run, and until then the in-memory table
\* holds no URL.
C7_WriteRuleFromFirstWrite ==
    /\ WriteOnlyAccepted
    /\ pc = "running" =>
          /\ output_csv.exists => output_csv.rows = df
          /\ ~output_csv.exists => WithUrl(df) = {}

\* A run wrote an accepted URL after an earlier row of it had failed.
C7_Witness ==
    /\ pc = "running"
    /\ last.kind = "queried"
    /\ CandidateAccepted
    /\ df[last.row].URL # NA
    /\ output_csv.rows = df
    /\ df[1].URL = NA
    /\ last.row > 1

\* C11: a query of one row makes at least one and at most 5 analyzer calls; a
\* call is repeated only after a 429 answer, so the calls are the 429 answers
\* seen plus the first other answer; an answer that is a transport or protocol
\* error ends the attempts with "NA" at that call; and the run goes on to the
\* next row, it does not come back to the row.
C11_BoundedRetry ==
    last.kind = "queried" =>
        /\ last.calls \in 1..5
        /\ last.calls = (IF last.limited < 5 THEN last.limited + 1 ELSE 5)
        /\ last.calls = Cardinality({i \in DOMAIN last.log : last.log[i] = "call"})
        /\ last.answer \in Failures =>
              /\ last.url = TextNA
              /\ last.calls = last.limited + 1
              /\ last.log[Len(last.log)] = "call"
        /\ last.answer = RateLimited => last.url = TextNA /\ last.calls = 5
        /\ pc = "running" => idx = last.row + 1

\* The analyzer answered 429 twice and then with a transport or protocol
\* error: three calls were made and the run is at the next row.
C11_Witness ==
    /\ pc = "running"
    /\ last.kind = "queried"
    /\ last.answer \in Failures
    /\ last.limited = 2
    /\ last.calls = 3
    /\ df[last.row].URL = NA

\* C12: when the analyzer answers 429 exactly k times, 0 <= k <= 4, and then
\* with an acceptable URL, the row is resolved with that URL, and exactly k
\* backoff waits happened, one after each 429 answer and before the next call.
C12_RetryCount ==
    (last.kind = "queried" /\ last.limited <= 4
        /\ last.answer \in TextAnswers(AcceptableTexts)) =>
        /\ last.url = Strip(last.answer.text)
        /\ output_csv.exists
        /\ output_csv.rows[last.row].URL = last.url
        /\ last.waits = last.limited
        /\ Len(last.log) = 2 * last.limited + 1
        /\ \A i \in 1..last.limited :
              last.log[2 * i - 1] = "call" /\ last.log[2 * i] = "wait"
        /\ last.log[2 * last.limited + 1] = "call"

\* The stated scenario: three 429 answers, then an acceptable URL.
C12_Witness ==
    /\ pc = "running"
    /\ last.kind = "queried"
    /\ last.limited = 3
    /\ last.answer \in TextAnswers(AcceptableTexts)
    /\ df[last.row].URL = Strip(last.answer.text)
    /\ last.waits = 3

\* The part of s that follows its first n characters.
Drop(s, n) == SubSeq(s, n + 1, Len(s))

\* The validation as the specification states it: an absolute reference with
\* scheme http or https and a host, whose path (what follows the host, up to
\* a query or fragment) ends in ".pdf", letter case ignored.
WellFormedHttpPdf(url) ==
    LET low == ToLower(url)
        http == <<"h", "t", "t", "p", ":", "/", "/">>
        https == <<"h", "t", "t", "p", "s", ":", "/", "/">>
        rest == IF StartsWith(low, https) THEN Drop(low, Len(https))
                ELSE Drop(low, Len(http))
        host == SplitFirst(rest, "/")
        path == SplitFirst(SplitFirst(Drop(rest, Len(host)), "?"), "#")
    IN  /\ StartsWith(low, http) \/ StartsWith(low, https)
        /\ \A i \in DOMAIN url : url[i] \notin Whitespace
        /\ host # <<>>
        /\ EndsWith(path, <<".", "p", "d", "f">>)

\* C15: the candidate of a query, the analyzer's text without the white space
\* around it, is accepted exactly when it is a well-formed absolute http or
\* https reference whose path ends in ".pdf", letter case ignored; every
\* other candidate is treated as not found.
C15_UrlValidation ==
    (last.kind = "queried" /\ last.answer.kind = "text") =>
        (UrlFound(last.url) <=> WellFormedHttpPdf(Strip(last.answer.text)))

\* C13: no error of one item ends a run.  The ingestor is never ended by the
\* analysis of a document, and the resolver is never ended by the handling of
\* a row: a run ends at startup or after its last item.
C13_ErrorsStayInItem ==
    /\ ingestor.pc # "aborted"
    /\ last.kind # "write_failed"

\* C14: a run that has ended has a non-zero exit status when the credential
\* was absent or a required input table was not found, and exit status zero
\* in every other case.
C14_ExitBehaviour ==
    /\ ingestor.pc \in {"exited", "aborted"} =>
          ingestor.exit_code = (IF ingestor.cause \in StartupErrors THEN 1 ELSE 0)
    /\ (pc = "stopped" /\ exit_code # NoExit) =>
          exit_code = (IF CanStart THEN 0 ELSE 1)

\* The table as persisted: the output file once it exists, the input file
\* before.
Stored == IF output_csv.exists THEN output_csv.rows ELSE input_csv

\* C8: no step of any run, fresh start or resume, clears or replaces a URL
\* value a row has, or changes another field of a row.
C8_RowsOnlyGainUrl ==
    [][\A i \in 1..NumRows :
          /\ Stored'[i].Title = Stored[i].Title
          /\ Stored'[i].Authors = Stored[i].Authors
          /\ Stored'[i].Year = Stored[i].Year
          /\ Stored[i].URL # NA => Stored'[i].URL = Stored[i].URL]_vars

====
